---- MODULE Spec2Model ----
(***************************************************************************)
(* A model of the FNOL claims agent: DocumentParser (src/src/pdf_parser.py)*)
(* FieldExtractor (src/src/field_extractor.py), RoutingEngine              *)
(* (src/src/routing_engine.py) and ClaimsProcessingAgent (src/agent.py).   *)
(*                                                                         *)
(* Representation.  A Python str that the code inspects character by       *)
(* character (document text, extracted values) is a sequence of one-       *)
(* character strings.  A str literal of the code that is only compared,    *)
(* listed or joined (field names, route labels, keywords) is a TLA+        *)
(* string; Lit gives the characters of the literals the code searches for. *)
(* A Python value is a record [t, s, n]: None, a str (s) or a number (n,   *)
(* an amount in whole cents).  A dict is a function whose DOMAIN is the    *)
(* set of keys it holds.                                                   *)
(***************************************************************************)
EXTENDS Integers, Sequences, FiniteSets, TLC

VARIABLES
    op,                \* the operation a behaviour exercises
    args,              \* the arguments of a direct call of a component
    ret,               \* what the call produced: [done, raised, value]
    HAS_PDFPLUMBER,    \* pdf_parser.HAS_PDFPLUMBER, set when the module is imported
    processed_count,   \* ClaimsProcessingAgent.processed_count
    directory,         \* the directory of a batch: [isdir, listing]
    supported_files,   \* process_multiple_claims: the files the globs gave
    results,           \* process_multiple_claims: the records appended so far
    pc                 \* process_multiple_claims: "idle", "loop", "returned", "raised"

vars == <<op, args, ret, HAS_PDFPLUMBER, processed_count, directory, supported_files,
          results, pc>>

\* the agent as constructed, outside any batch; the import of pdfplumber may have
\* succeeded or failed
AgentIdle ==
    /\ HAS_PDFPLUMBER \in BOOLEAN
    /\ processed_count = 0
    /\ directory = [isdir |-> FALSE, listing |-> <<>>]
    /\ supported_files = <<>>
    /\ results = <<>>
    /\ pc = "idle"

agent_vars == <<HAS_PDFPLUMBER, processed_count, directory, supported_files, results, pc>>

(***************************************************************************)
(* Python values                                                           *)
(***************************************************************************)
PyNone == [t |-> "none", s |-> <<>>, n |-> 0]
PyStr(chars) == [t |-> "str", s |-> chars, n |-> 0]
PyNum(cents) == [t |-> "num", s |-> <<>>, n |-> cents]

\* d.get(k, default)
Get(d, k, default) == IF k \in DOMAIN d THEN d[k] ELSE default

\* bool(value) for the values above: None, "" and 0 are falsy
Truthy(v) ==
    CASE v.t = "none" -> FALSE
      [] v.t = "str"  -> v.s # <<>>
      [] v.t = "num"  -> v.n # 0

(***************************************************************************)
(* Python str operations                                                   *)
(***************************************************************************)
\* A str is a sequence of one-character strings, over the characters U+0000 to
\* U+00FE.  The cased letters of that range that str.lower() changes, with what it
\* makes of them.
UpperToLower ==
    "A" :> "a" @@ "B" :> "b" @@ "C" :> "c" @@ "D" :> "d" @@ "E" :> "e" @@ "F" :> "f" @@
    "G" :> "g" @@ "H" :> "h" @@ "I" :> "i" @@ "J" :> "j" @@ "K" :> "k" @@ "L" :> "l" @@
    "M" :> "m" @@ "N" :> "n" @@ "O" :> "o" @@ "P" :> "p" @@ "Q" :> "q" @@ "R" :> "r" @@
    "S" :> "s" @@ "T" :> "t" @@ "U" :> "u" @@ "V" :> "v" @@ "W" :> "w" @@ "X" :> "x" @@
    "Y" :> "y" @@ "Z" :> "z" @@ "À" :> "à" @@ "Á" :> "á" @@ "Â" :> "â" @@ "Ã" :> "ã" @@
    "Ä" :> "ä" @@ "Å" :> "å" @@ "Æ" :> "æ" @@ "Ç" :> "ç" @@ "È" :> "è" @@ "É" :> "é" @@
    "Ê" :> "ê" @@ "Ë" :> "ë" @@ "Ì" :> "ì" @@ "Í" :> "í" @@ "Î" :> "î" @@ "Ï" :> "ï" @@
    "Ð" :> "ð" @@ "Ñ" :> "ñ" @@ "Ò" :> "ò" @@ "Ó" :> "ó" @@ "Ô" :> "ô" @@ "Õ" :> "õ" @@
    "Ö" :> "ö" @@ "Ø" :> "ø" @@ "Ù" :> "ù" @@ "Ú" :> "ú" @@ "Û" :> "û" @@ "Ü" :> "ü" @@
    "Ý" :> "ý" @@ "Þ" :> "þ"

LowerChar(c) == IF c \in DOMAIN UpperToLower THEN UpperToLower[c] ELSE c

\* str.lower()
Lower(chars) == [i \in 1..Len(chars) |-> LowerChar(chars[i])]

\* the characters str.strip() removes and \s matches (str.isspace)
Whitespace ==
    {"\t", "\n", "", "\f", "\r", "", "", "", "", " ", "", " "}

\* str.strip()
Strip(chars) ==
    LET keep == {i \in 1..Len(chars) : chars[i] \notin Whitespace}
    IN  IF keep = {} THEN <<>>
        ELSE LET lo == CHOOSE i \in keep : \A j \in keep : i <= j
                 hi == CHOOSE i \in keep : \A j \in keep : j <= i
             IN  SubSeq(chars, lo, hi)

\* str.endswith(tail)
EndsWith(chars, tail) ==
    /\ Len(tail) <= Len(chars)
    /\ SubSeq(chars, Len(chars) - Len(tail) + 1, Len(chars)) = tail

\* needle in hay
Contains(hay, needle) ==
    \E i \in 1..(Len(hay) - Len(needle) + 1) :
        SubSeq(hay, i, i + Len(needle) - 1) = needle

\* The characters of the str literals the code searches for or compares with.
Lit ==
    "injury" :> <<"i", "n", "j", "u", "r", "y">>
 @@ "bodily" :> <<"b", "o", "d", "i", "l", "y">>
 @@ "personal" :> <<"p", "e", "r", "s", "o", "n", "a", "l">>
 @@ "fraud" :> <<"f", "r", "a", "u", "d">>
 @@ "inconsistent" :> <<"i", "n", "c", "o", "n", "s", "i", "s", "t", "e", "n", "t">>
 @@ "staged" :> <<"s", "t", "a", "g", "e", "d">>
 @@ "suspicious" :> <<"s", "u", "s", "p", "i", "c", "i", "o", "u", "s">>
 @@ "falsified" :> <<"f", "a", "l", "s", "i", "f", "i", "e", "d">>
 @@ "not" :> <<"n", "o", "t">>
 @@ "not provided" :> <<"n", "o", "t", " ", "p", "r", "o", "v", "i", "d", "e", "d">>
 @@ "n/a" :> <<"n", "/", "a">>
 @@ "na" :> <<"n", "a">>
 @@ "unknown" :> <<"u", "n", "k", "n", "o", "w", "n">>
 @@ "incomplete" :> <<"i", "n", "c", "o", "m", "p", "l", "e", "t", "e">>
 @@ "insufficient" :> <<"i", "n", "s", "u", "f", "f", "i", "c", "i", "e", "n", "t">>
 @@ "missing" :> <<"m", "i", "s", "s", "i", "n", "g">>
 @@ "policy" :> <<"p", "o", "l", "i", "c", "y">>
 @@ "number" :> <<"n", "u", "m", "b", "e", "r">>
 @@ "#" :> <<"#">>
 @@ "policy_number" :> <<"p", "o", "l", "i", "c", "y", "_", "n", "u", "m", "b", "e", "r">>
 @@ "name" :> <<"n", "a", "m", "e">>
 @@ "of" :> <<"o", "f">>
 @@ "insured" :> <<"i", "n", "s", "u", "r", "e", "d">>
 @@ "policyholder" :> <<"p", "o", "l", "i", "c", "y", "h", "o", "l", "d", "e", "r">>
 @@ "effective" :> <<"e", "f", "f", "e", "c", "t", "i", "v", "e">>
 @@ "date" :> <<"d", "a", "t", "e">>
 @@ "coverage" :> <<"c", "o", "v", "e", "r", "a", "g", "e">>
 @@ "period" :> <<"p", "e", "r", "i", "o", "d">>
 @@ "loss" :> <<"l", "o", "s", "s">>
 @@ "accident" :> <<"a", "c", "c", "i", "d", "e", "n", "t">>
 @@ "time" :> <<"t", "i", "m", "e">>
 @@ "am" :> <<"a", "m">>
 @@ "pm" :> <<"p", "m">>
 @@ "location" :> <<"l", "o", "c", "a", "t", "i", "o", "n">>
 @@ "street" :> <<"s", "t", "r", "e", "e", "t">>
 @@ "address" :> <<"a", "d", "d", "r", "e", "s", "s">>
 @@ "loc" :> <<"l", "o", "c">>
 @@ "city" :> <<"c", "i", "t", "y">>
 @@ "city," :> <<"c", "i", "t", "y", ",">>
 @@ "state" :> <<"s", "t", "a", "t", "e">>
 @@ "claimant" :> <<"c", "l", "a", "i", "m", "a", "n", "t">>
 @@ "contact" :> <<"c", "o", "n", "t", "a", "c", "t">>
 @@ "other" :> <<"o", "t", "h", "e", "r">>
 @@ "vehicle" :> <<"v", "e", "h", "i", "c", "l", "e">>
 @@ "party" :> <<"p", "a", "r", "t", "y">>
 @@ "third" :> <<"t", "h", "i", "r", "d">>
 @@ "primary" :> <<"p", "r", "i", "m", "a", "r", "y">>
 @@ "secondary" :> <<"s", "e", "c", "o", "n", "d", "a", "r", "y">>
 @@ "phone" :> <<"p", "h", "o", "n", "e">>
 @@ "e-mail" :> <<"e", "-", "m", "a", "i", "l">>
 @@ "email" :> <<"e", "m", "a", "i", "l">>
 @@ "asset" :> <<"a", "s", "s", "e", "t">>
 @@ "type" :> <<"t", "y", "p", "e">>
 @@ "v.i.n." :> <<"v", ".", "i", ".", "n", ".">>
 @@ "vin" :> <<"v", "i", "n">>
 @@ "plate" :> <<"p", "l", "a", "t", "e">>
 @@ "claim" :> <<"c", "l", "a", "i", "m">>
 @@ "line" :> <<"l", "i", "n", "e">>
 @@ "business" :> <<"b", "u", "s", "i", "n", "e", "s", "s">>
 @@ "estimate" :> <<"e", "s", "t", "i", "m", "a", "t", "e">>
 @@ "amount" :> <<"a", "m", "o", "u", "n", "t">>
 @@ "damage" :> <<"d", "a", "m", "a", "g", "e">>
 @@ "estimated" :> <<"e", "s", "t", "i", "m", "a", "t", "e", "d">>
 @@ "describe" :> <<"d", "e", "s", "c", "r", "i", "b", "e">>
 @@ "description" :> <<"d", "e", "s", "c", "r", "i", "p", "t", "i", "o", "n">>
 @@ "intersection" :> <<"i", "n", "t", "e", "r", "s", "e", "c", "t", "i", "o", "n">>
 @@ "driveway" :> <<"d", "r", "i", "v", "e", "w", "a", "y">>
 @@ "parking" :> <<"p", "a", "r", "k", "i", "n", "g">>
 @@ "@" :> <<"@">>
 @@ "." :> <<".">>
 @@ ":" :> <<":">>
 @@ "$" :> <<"$">>
 @@ "," :> <<",">>
 @@ ".txt" :> <<".", "t", "x", "t">>
 @@ ".pdf" :> <<".", "p", "d", "f">>

\* sep.join(items), kept as the sequence of its pieces
RECURSIVE Join(_, _)
Join(items, sep) ==
    IF Len(items) <= 1 THEN items
    ELSE <<Head(items), sep>> \o Join(Tail(items), sep)

(***************************************************************************)
(* Number formatting of the reasoning strings: f"{v:,.2f}" and f"{v:,}"    *)
(***************************************************************************)
Pad(n, width) ==
    IF width = 3 /\ n < 10 THEN "00" \o ToString(n)
    ELSE IF (width = 3 /\ n < 100) \/ (width = 2 /\ n < 10) THEN "0" \o ToString(n)
    ELSE ToString(n)

RECURSIVE Grouped(_)
\* f"{n:,}" for an integer n >= 0
Grouped(n) ==
    IF n < 1000 THEN ToString(n)
    ELSE Grouped(n \div 1000) \o "," \o Pad(n % 1000, 3)

\* f"{v:,.2f}" for an amount of `cents` whole cents: the sign, then the magnitude
Money(cents) ==
    IF cents < 0 THEN "-" \o Grouped((0 - cents) \div 100) \o "." \o Pad((0 - cents) % 100, 2)
    ELSE Grouped(cents \div 100) \o "." \o Pad(cents % 100, 2)

(***************************************************************************)
(* RoutingEngine                                                           *)
(***************************************************************************)
FAST_TRACK_THRESHOLD == 25000

get_all_routes ==
    <<"FAST_TRACK", "STANDARD_REVIEW", "MANUAL_REVIEW", "INVESTIGATION_FLAG",
      "SPECIALIST_QUEUE">>

Returned(route, reasoning) ==
    [raised |-> "", recommendedRoute |-> route, reasoning |-> reasoning]

Raised(exception) ==
    [raised |-> exception, recommendedRoute |-> "", reasoning |-> <<>>]

\* Mutant of IsSpecialistType: the test for "personal" is forgotten
IsSpecialistType_no_personal(claim_type) ==
    \/ Contains(claim_type, Lit["injury"])
    \/ Contains(claim_type, Lit["bodily"])

\* Rule 3's test on the lower-cased claim type
IsSpecialistType(claim_type) ==
    \/ Contains(claim_type, Lit["injury"])
    \/ Contains(claim_type, Lit["bodily"])
    \/ Contains(claim_type, Lit["personal"])

\* Rule 4: the comparison with the threshold, amounts in whole cents
damage_route(damage_value) ==
    IF damage_value < FAST_TRACK_THRESHOLD * 100
    THEN Returned("FAST_TRACK",
            <<"Low damage amount ($", Money(damage_value), " < $",
              Grouped(FAST_TRACK_THRESHOLD),
              "). Eligible for expedited processing.">>)
    ELSE Returned("STANDARD_REVIEW",
            <<"High damage amount ($", Money(damage_value), " >= $",
              Grouped(FAST_TRACK_THRESHOLD),
              "). Requires standard review.">>)

\* Rules 3 and 4, reached when no field is missing and no keyword was found
route_by_type_and_damage(extracted_fields) ==
    LET claim_type_value == Get(extracted_fields, "claim_type", PyStr(<<>>))
        damage == Get(extracted_fields, "estimated_damage_value", PyNum(0))
    IN  IF claim_type_value.t # "str"
        THEN Raised("AttributeError")      \* None has no .lower()
        ELSE IF IsSpecialistType(Lower(claim_type_value.s))
        THEN Returned("SPECIALIST_QUEUE",
                <<"Claim type requires specialist handling (injury/bodily harm involved)">>)
        ELSE IF damage.t # "num"
        THEN Raised("TypeError")           \* None < int
        ELSE damage_route(damage.n)

\* Mutant of determine_route: the fraud rule is tried before the missing-field rule
determine_route_fraud_first(extracted_fields, missing_fields, fraud_indicators) ==
    IF fraud_indicators # <<>>
    THEN Returned("INVESTIGATION_FLAG",
            <<"Potential fraud indicators detected: ">> \o Join(fraud_indicators, ", "))
    ELSE IF missing_fields # <<>>
    THEN Returned("MANUAL_REVIEW",
            <<"Missing mandatory fields: ">> \o Join(missing_fields, ", "))
    ELSE route_by_type_and_damage(extracted_fields)

\* Mutant of determine_route: the claim-type rule is tried before the fraud rule
determine_route_type_first(extracted_fields, missing_fields, fraud_indicators) ==
    LET by_type == route_by_type_and_damage(extracted_fields)
    IN  IF missing_fields # <<>>
        THEN Returned("MANUAL_REVIEW",
                <<"Missing mandatory fields: ">> \o Join(missing_fields, ", "))
        ELSE IF by_type.recommendedRoute = "SPECIALIST_QUEUE"
        THEN by_type
        ELSE IF fraud_indicators # <<>>
        THEN Returned("INVESTIGATION_FLAG",
                <<"Potential fraud indicators detected: ">> \o Join(fraud_indicators, ", "))
        ELSE by_type

determine_route(extracted_fields, missing_fields, fraud_indicators) ==
    IF missing_fields # <<>>
    THEN Returned("MANUAL_REVIEW",
            <<"Missing mandatory fields: ">> \o Join(missing_fields, ", "))
    ELSE IF fraud_indicators # <<>>
    THEN Returned("INVESTIGATION_FLAG",
            <<"Potential fraud indicators detected: ">> \o Join(fraud_indicators, ", "))
    ELSE route_by_type_and_damage(extracted_fields)

(***************************************************************************)
(* Direct calls of determine_route: the inputs                             *)
(***************************************************************************)
\* how far around the threshold, in cents, the amounts of the inputs go
MaxDelta == 2

ClaimTypeSamples ==
    { PyNone,
      PyStr(<<>>),
      PyStr(<<"A", "u", "t", "o">>),
      PyStr(<<"C", "o", "l", "l", "i", "s", "i", "o", "n">>),
      PyStr(<<"i", "n", "j", "u", "r">>),
      PyStr(<<"B", "o", "d", "i", "l", "y", " ", "I", "n", "j", "u", "r", "y">>),
      PyStr(<<"P", "E", "R", "S", "O", "N", "A", "L">>),
      PyStr(<<"a", "u", "t", "o", "/", "i", "n", "j", "u", "r", "y">>),
      PyStr(<<"É", "t", "é", " ", "I", "N", "J", "U", "R", "Y">>) }

DamageSamples ==
    {PyNum(0 - 150000), PyNum(0 - 1), PyNum(0), PyNum(500000), PyNum(10000000)}
    \cup {PyNum(FAST_TRACK_THRESHOLD * 100 + d) : d \in (0 - MaxDelta)..MaxDelta}

\* extracted_fields as determine_route reads it: either key may be held or not
RouteFieldSamples ==
    { [k \in {"claim_type", "estimated_damage_value"} |->
          IF k = "claim_type" THEN c ELSE d] : c \in ClaimTypeSamples, d \in DamageSamples }
    \cup { [k \in {"claim_type"} |-> c] : c \in ClaimTypeSamples }
    \cup { [k \in {"estimated_damage_value"} |-> d] : d \in DamageSamples }
    \cup { [k \in {} |-> PyNone] }

MissingSamples ==
    { <<>>,
      <<"policy_number">>,
      <<"estimated_damage">>,
      <<"claim_type", "policy_number">>,
      <<"policy_number", "policyholder_name", "incident_date", "incident_location",
        "claim_type", "estimated_damage">> }

FraudSamples ==
    { <<>>, <<"staged">>, <<"fraud", "suspicious">>, <<"falsified", "inconsistent", "fraud">> }

Pending == [done |-> FALSE, raised |-> "", value |-> <<>>]

InitRoute ==
    /\ op = "determine_route"
    /\ \E f \in RouteFieldSamples, m \in MissingSamples, fr \in FraudSamples :
          args = [extracted_fields |-> f, missing_fields |-> m, fraud_indicators |-> fr]
    /\ ret = Pending
    /\ AgentIdle

CallDetermineRoute ==
    /\ op = "determine_route"
    /\ ~ret.done
    /\ LET r == determine_route(args.extracted_fields, args.missing_fields,
                                args.fraud_indicators)
       IN  ret' = [done |-> TRUE, raised |-> r.raised, value |-> r]
    /\ UNCHANGED <<op, args>>
    /\ UNCHANGED agent_vars

NextRoute == CallDetermineRoute

SpecRoute == InitRoute /\ [][NextRoute]_vars

(***************************************************************************)
(* Claims about determine_route (checked under SpecRoute)                  *)
(***************************************************************************)
RouteDone == op = "determine_route" /\ ret.done

\* the claim type the call was given: the value held under "claim_type", if any
GivenClaimType == Get(args.extracted_fields, "claim_type", PyNone)

\* the amount the call was given, 0 when the key is not held
GivenDamage == Get(args.extracted_fields, "estimated_damage_value", PyNum(0)).n

\* the claim type, case-folded, contains 'injury', 'bodily' or 'personal'
NamesInjury ==
    /\ GivenClaimType.t = "str"
    /\ \E w \in {"injury", "bodily", "personal"} :
          Contains(Lower(GivenClaimType.s), Lit[w])

\* `reasoning` is `prefix` followed by the items of `items`, in order, separated by ', '
ListsJoined(reasoning, prefix, items) ==
    /\ Len(reasoning) = 2 * Len(items)
    /\ reasoning[1] = prefix
    /\ \A i \in 1..Len(items) : reasoning[2 * i] = items[i]
    /\ \A i \in 1..(Len(items) - 1) : reasoning[2 * i + 1] = ", "

\* C1: a call with a non-empty missing list returns MANUAL_REVIEW whatever the fraud
\* list, the claim type and the amount are, and its reasoning lists exactly the
\* given names, in the given order, joined by ', '.
C1_MissingRoutesManualReview ==
    (RouteDone /\ args.missing_fields # <<>>) =>
        /\ ret.raised = ""
        /\ ret.value.recommendedRoute = "MANUAL_REVIEW"
        /\ ListsJoined(ret.value.reasoning, "Missing mandatory fields: ",
                       args.missing_fields)

\* C1 witness: a call with two missing names (not in declaration order), fraud
\* keywords and an injury claim type has returned.
C1_Witness ==
    /\ RouteDone
    /\ args.missing_fields = <<"claim_type", "policy_number">>
    /\ args.fraud_indicators # <<>>
    /\ NamesInjury
    /\ ret.value.recommendedRoute = "MANUAL_REVIEW"

\* C2: a call with an empty missing list and a non-empty fraud list returns
\* INVESTIGATION_FLAG whatever the claim type (injury types included) and the amount
\* are, and its reasoning lists the given keywords joined by ', '.
C2_FraudRoutesInvestigation ==
    (RouteDone /\ args.missing_fields = <<>> /\ args.fraud_indicators # <<>>) =>
        /\ ret.raised = ""
        /\ ret.value.recommendedRoute = "INVESTIGATION_FLAG"
        /\ ListsJoined(ret.value.reasoning, "Potential fraud indicators detected: ",
                       args.fraud_indicators)

\* C2 witness: a call with no missing name, several fraud keywords and an injury
\* claim type has returned.
C2_Witness ==
    /\ RouteDone
    /\ args.missing_fields = <<>>
    /\ Len(args.fraud_indicators) > 1
    /\ NamesInjury
    /\ ret.value.recommendedRoute = "INVESTIGATION_FLAG"

\* C3: with empty missing and fraud lists, a claim type whose case-folded form
\* contains 'injury', 'bodily' or 'personal' gives SPECIALIST_QUEUE whatever the
\* amount; a claim type containing none of the three never gives SPECIALIST_QUEUE.
C3_InjuryRoutesSpecialist ==
    RouteDone =>
        /\ (args.missing_fields = <<>> /\ args.fraud_indicators = <<>> /\ NamesInjury)
              => (ret.raised = "" /\ ret.value.recommendedRoute = "SPECIALIST_QUEUE")
        /\ ~NamesInjury => ret.value.recommendedRoute # "SPECIALIST_QUEUE"

\* C3 witness: an upper-case injury type with an amount at or above the threshold
\* has been routed to the specialist queue.
C3_Witness ==
    /\ RouteDone
    /\ NamesInjury
    /\ GivenClaimType.s # Lower(GivenClaimType.s)
    /\ GivenDamage >= FAST_TRACK_THRESHOLD * 100
    /\ ret.value.recommendedRoute = "SPECIALIST_QUEUE"

\* C4: with empty missing and fraud lists and a claim type that is not an injury,
\* bodily or personal type, the route is FAST_TRACK exactly when the amount is below
\* 25000 and STANDARD_REVIEW exactly when it is at or above 25000.
C4_ThresholdDecides ==
    (RouteDone /\ args.missing_fields = <<>> /\ args.fraud_indicators = <<>>
        /\ ~NamesInjury) =>
        /\ ret.value.recommendedRoute = "FAST_TRACK"
              <=> GivenDamage < FAST_TRACK_THRESHOLD * 100
        /\ ret.value.recommendedRoute = "STANDARD_REVIEW"
              <=> GivenDamage >= FAST_TRACK_THRESHOLD * 100

\* C5: determine_route is total: every call returns, with one of the five labels
\* and a non-empty reasoning.
C5_RouteIsTotal ==
    RouteDone =>
        /\ ret.raised = ""
        /\ \E i \in 1..Len(get_all_routes) : ret.value.recommendedRoute = get_all_routes[i]
        /\ ret.value.reasoning # <<>>

(***************************************************************************)
(* Python re, as far as FIELD_PATTERNS uses it.  A pattern is a sequence   *)
(* of nodes; Match tries them from position i of the text with the         *)
(* backtracking order of re (alternatives left to right, greedy            *)
(* repetitions longest first, lazy ones shortest first) and yields the     *)
(* first way to match, with the span of the one capturing group.  The      *)
(* flags are those of the call at field_extractor.py:58: IGNORECASE        *)
(* (letters are compared lower-cased), MULTILINE ($ also matches before a  *)
(* newline), DOTALL (no pattern uses '.').                                 *)
(***************************************************************************)
Digits == {"0", "1", "2", "3", "4", "5", "6", "7", "8", "9"}
Letters ==
    {"a", "b", "c", "d", "e", "f", "g", "h", "i", "j", "k", "l", "m", "n", "o", "p", "q",
     "r", "s", "t", "u", "v", "w", "x", "y", "z"}
Alnum == Digits \cup Letters

\* \w, lower-cased: [a-z0-9_] and the letters and numerals above U+007F
Word ==
    Alnum \cup {"_"}
    \cup
    {"ª", "²", "³", "µ", "¹", "º", "¼", "½", "¾", "ß", "à", "á", "â", "ã", "ä", "å", "æ",
     "ç", "è", "é", "ê", "ë", "ì", "í", "î", "ï", "ð", "ñ", "ò", "ó", "ô", "õ", "ö", "ø",
     "ù", "ú", "û", "ü", "ý", "þ"}

W(word) == [k |-> "lit", s |-> word]                         \* literal text
Ch(set) == [k |-> "cls", neg |-> FALSE, set |-> set]         \* [...]
NotCh(set) == [k |-> "cls", neg |-> TRUE, set |-> set]       \* [^...]
\* a character class repeated min..max times (max < 0: no upper limit)
Run(cls, min, max, greedy) ==
    [k |-> "run", c |-> cls, min |-> min, max |-> max, greedy |-> greedy]
\* a group repeated min..max times, greedy
Rep(body, min, max) == [k |-> "rep", body |-> body, min |-> min, max |-> max]
Alt(alts) == [k |-> "alt", alts |-> alts]                    \* (?:a|b|...)
Open == [k |-> "open"]                                       \* ( of the group
Close == [k |-> "close"]                                     \* ) of the group
Look(alts) == [k |-> "look", alts |-> alts]                  \* (?=a|b|...)
Eol == [k |-> "eol"]                                         \* $

S0 == Run(Ch(Whitespace), 0, -1, TRUE)                       \* \s*
S1 == Run(Ch(Whitespace), 1, -1, TRUE)                       \* \s+
Sep == Run(Ch({":"} \cup Whitespace), 0, -1, TRUE)           \* [:\s]*

InClass(c, cls) == (LowerChar(c) \in cls.set) # cls.neg

LitAt(text, chars, i) ==
    /\ i + Len(chars) - 1 <= Len(text)
    /\ \A j \in 1..Len(chars) : LowerChar(text[i + j - 1]) = chars[j]

\* how many characters from position i on are in the class, at most max
RunLen(text, cls, i, max) ==
    LET bad == {j \in i..Len(text) : ~InClass(text[j], cls)}
        avail == IF bad = {} THEN Len(text) - i + 1
                 ELSE (CHOOSE j \in bad : \A x \in bad : j <= x) - i
    IN  IF max >= 0 /\ max < avail THEN max ELSE avail

NoMatch == [ok |-> FALSE, s |-> 0, e |-> 0]

RECURSIVE Match(_, _, _, _)
RECURSIVE TryRun(_, _, _, _, _, _, _)
RECURSIVE TryAlt(_, _, _, _, _, _)
RECURSIVE MatchLit(_, _, _, _, _)

\* the literal text, then the rest
MatchLit(text, chars, rest, i, g) ==
    IF LitAt(text, chars, i) THEN Match(text, rest, i + Len(chars), g) ELSE NoMatch

\* the run takes k characters, then k + step, ... up to `last`
TryRun(text, rest, i, g, k, last, step) ==
    LET m == Match(text, rest, i + k, g)
    IN  IF m.ok THEN m
        ELSE IF k = last THEN NoMatch
        ELSE TryRun(text, rest, i, g, k + step, last, step)

TryAlt(text, alts, rest, i, g, a) ==
    IF a > Len(alts) THEN NoMatch
    ELSE LET m == Match(text, alts[a] \o rest, i, g)
         IN  IF m.ok THEN m ELSE TryAlt(text, alts, rest, i, g, a + 1)

Match(text, nodes, i, g) ==
    IF Len(nodes) = 0 THEN [ok |-> TRUE, s |-> g.s, e |-> g.e]
    ELSE
      LET n == Head(nodes)
          rest == Tail(nodes)
      IN  CASE n.k = "lit" -> MatchLit(text, Lit[n.s], rest, i, g)
            [] n.k = "cls" ->
                 IF i <= Len(text) /\ InClass(text[i], n)
                 THEN Match(text, rest, i + 1, g) ELSE NoMatch
            [] n.k = "run" ->
                 LET most == RunLen(text, n.c, i, n.max)
                 IN  IF most < n.min THEN NoMatch
                     ELSE IF n.greedy THEN TryRun(text, rest, i, g, most, n.min, -1)
                     ELSE TryRun(text, rest, i, g, n.min, most, 1)
            [] n.k = "rep" ->
                 LET again == [n EXCEPT !.min = IF @ > 0 THEN @ - 1 ELSE 0,
                                        !.max = IF @ > 0 THEN @ - 1 ELSE @]
                     more == IF n.max = 0 THEN NoMatch
                             ELSE Match(text, n.body \o <<again>> \o rest, i, g)
                 IN  IF more.ok THEN more
                     ELSE IF n.min <= 0 THEN Match(text, rest, i, g)
                     ELSE NoMatch
            [] n.k = "alt" -> TryAlt(text, n.alts, rest, i, g, 1)
            [] n.k = "open" -> Match(text, rest, i, [g EXCEPT !.s = i])
            [] n.k = "close" -> Match(text, rest, i, [g EXCEPT !.e = i])
            [] n.k = "look" ->
                 IF TryAlt(text, n.alts, <<>>, i, g, 1).ok
                 THEN Match(text, rest, i, g) ELSE NoMatch
            [] n.k = "eol" ->
                 IF i = Len(text) + 1 \/ (i <= Len(text) /\ text[i] = "\n")
                 THEN Match(text, rest, i, g) ELSE NoMatch

\* re.search(pattern, text, flags): the match at the leftmost position that has one;
\* [found, group]: group is match.group(1)
Search(pattern, text) ==
    LET starts == {i \in 1..(Len(text) + 1) : Match(text, pattern, i, NoMatch).ok}
    IN  IF starts = {} THEN [found |-> FALSE, group |-> <<>>]
        ELSE LET first == CHOOSE i \in starts : \A j \in starts : i <= j
                 m == Match(text, pattern, first, NoMatch)
             IN  [found |-> TRUE, group |-> SubSeq(text, m.s, m.e - 1)]

(***************************************************************************)
(* FieldExtractor.FIELD_PATTERNS                                           *)
(***************************************************************************)
FieldNames ==
    <<"policy_number", "policyholder_name", "effective_date", "incident_date",
      "incident_time", "incident_location", "city_state_zip", "claimant_name",
      "third_party", "contact_phone", "contact_email", "asset_type", "vehicle_vin",
      "vehicle_plate", "claim_type", "estimated_damage", "accident_description">>

\* [0-9]{2}[/-][0-9]{2}[/-][0-9]{4}
DatePattern ==
    <<Run(Ch(Digits), 2, 2, TRUE), Ch({"/", "-"}), Run(Ch(Digits), 2, 2, TRUE),
      Ch({"/", "-"}), Run(Ch(Digits), 4, 4, TRUE)>>

FIELD_PATTERNS ==
    [policy_number |->
        <<Alt(<< <<W("policy"), S0, Alt(<< <<W("number")>>, <<W("#")>> >>)>>,
                 <<W("policy_number")>> >>),
          Sep, Open, Run(Ch(Alnum \cup {"-"}), 1, -1, TRUE), Close>>,
     policyholder_name |->
        <<Alt(<< <<W("name"), S0, W("of"), S0, W("insured")>>,
                 <<W("policyholder"), S0, W("name")>> >>),
          Sep, Open, Run(NotCh({",", "\n"}), 1, -1, TRUE), Close>>,
     effective_date |->
        <<Alt(<< <<W("effective"), S0, W("date")>>,
                 <<W("coverage"), S0, W("period")>> >>),
          Sep, Open>> \o DatePattern \o <<Close>>,
     incident_date |->
        <<Alt(<< <<W("date"), S0, W("of"), S0,
                   Alt(<< <<W("loss")>>, <<W("accident")>> >>)>>,
                 <<W("date")>> >>),
          Sep, Open>> \o DatePattern \o <<Close>>,
     incident_time |->
        <<W("time"), Sep, Open, Run(Ch(Digits), 1, 2, TRUE), W(":"),
          Run(Ch(Digits), 2, 2, TRUE), S0,
          Rep(<<Alt(<< <<W("am")>>, <<W("pm")>> >>)>>, 0, 1), Close>>,
     incident_location |->
        <<Alt(<< <<W("location"), S0, W("of"), S0,
                   Alt(<< <<W("loss")>>, <<W("accident")>> >>)>>,
                 <<W("street")>>, <<W("address")>>, <<W("loc")>> >>),
          Sep, Open, Run(NotCh({";", "\n"}), 1, -1, FALSE), Close,
          Look(<< <<Ch({"\n"})>>, <<Ch({";"})>>, <<Eol>> >>)>>,
     city_state_zip |->
        <<Alt(<< <<W("city")>>, <<W("city,"), S0, W("state")>> >>),
          Sep, Open, Run(NotCh({",", "\n"}), 1, -1, TRUE),
          Rep(<<W(","), Run(NotCh({",", "\n"}), 1, -1, TRUE)>>, 0, -1), Close>>,
     claimant_name |->
        <<Alt(<< <<W("name"), S0, W("of"), S0,
                   Alt(<< <<W("claimant")>>, <<W("contact")>> >>)>>,
                 <<W("contact"), S0, W("name")>> >>),
          Sep, Open, Run(NotCh({",", "\n"}), 1, -1, TRUE), Close>>,
     third_party |->
        <<Alt(<< <<W("other"), S0, Alt(<< <<W("vehicle")>>, <<W("party")>> >>)>>,
                 <<W("third"), S0, W("party")>> >>),
          Sep, Open, Run(NotCh({"\n"}), 1, -1, TRUE), Close>>,
     contact_phone |->
        <<Rep(<<Alt(<< <<W("primary"), S0>>, <<W("secondary"), S0>> >>)>>, 0, 1),
          W("phone"), Sep, Open, Run(Ch(Digits), 3, 3, TRUE),
          Run(Ch({".", "-"}), 0, 1, TRUE), Run(Ch(Digits), 3, 3, TRUE),
          Run(Ch({".", "-"}), 0, 1, TRUE), Run(Ch(Digits), 4, 4, TRUE), Close>>,
     contact_email |->
        <<Alt(<< <<W("e-mail")>>, <<W("email")>> >>),
          Sep, Open, Run(Ch(Alnum \cup {".", "_", "%", "+", "-"}), 1, -1, TRUE), W("@"),
          Run(Ch(Alnum \cup {".", "-"}), 1, -1, TRUE), W("."),
          Run(Ch(Letters), 2, -1, TRUE), Close>>,
     asset_type |->
        <<Alt(<< <<W("insured"), S0, W("vehicle")>>, <<W("asset"), S0, W("type")>> >>),
          Sep, Open, Run(NotCh({"\n"}), 1, -1, TRUE), Close>>,
     vehicle_vin |->
        <<Alt(<< <<W("v.i.n.")>>, <<W("vin")>> >>),
          Sep, Open, Run(Ch(Alnum \ {"i", "o", "q"}), 17, 17, TRUE), Close>>,
     vehicle_plate |->
        <<W("plate"), S0, W("number"), Sep, Open, Run(Ch(Alnum), 2, 8, TRUE), Close>>,
     claim_type |->
        <<Alt(<< <<W("claim"), S0, W("type")>>,
                 <<W("line"), S0, W("of"), S0, W("business")>> >>),
          Sep, Open, Run(NotCh({"\n"}), 1, -1, TRUE), Close>>,
     estimated_damage |->
        <<Alt(<< <<W("estimate"), S0, Alt(<< <<W("amount")>>, <<W("damage")>> >>)>>,
                 <<W("estimated"), S0, Alt(<< <<W("damage")>>, <<W("loss")>> >>)>> >>),
          Sep, Run(Ch({"$"}), 0, 1, TRUE), Open, Run(Ch(Digits), 1, 3, TRUE),
          Rep(<<W(","), Run(Ch(Digits), 3, 3, TRUE)>>, 0, -1),
          Rep(<<W("."), Run(Ch(Digits), 2, 2, TRUE)>>, 0, 1), Close>>,
     accident_description |->
        <<Alt(<< <<W("describe"), S0,
                   Alt(<< <<W("loss")>>, <<W("accident")>>, <<W("damage")>> >>)>>,
                 <<W("description")>> >>),
          Sep, Open, Run(NotCh({";"}), 1, -1, TRUE),
          Rep(<<Ch({";"}), Run(NotCh({";"}), 1, -1, TRUE)>>, 0, 1), Close>>]

\* (\w+\s+street)
StreetPattern ==
    <<Open, Run(Ch(Word), 1, -1, TRUE), S1, W("street"), Close>>

\* intersection\s+of\s+([^.]+)
IntersectionPattern ==
    <<W("intersection"), S1, W("of"), S1, Open, Run(NotCh({"."}), 1, -1, TRUE), Close>>

(***************************************************************************)
(* FieldExtractor.extract_fields                                           *)
(***************************************************************************)
\* the characters whose title case differs from them, with their title case
LowerToTitle ==
    "a" :> <<"A">> @@ "b" :> <<"B">> @@ "c" :> <<"C">> @@ "d" :> <<"D">> @@
    "e" :> <<"E">> @@ "f" :> <<"F">> @@ "g" :> <<"G">> @@ "h" :> <<"H">> @@
    "i" :> <<"I">> @@ "j" :> <<"J">> @@ "k" :> <<"K">> @@ "l" :> <<"L">> @@
    "m" :> <<"M">> @@ "n" :> <<"N">> @@ "o" :> <<"O">> @@ "p" :> <<"P">> @@
    "q" :> <<"Q">> @@ "r" :> <<"R">> @@ "s" :> <<"S">> @@ "t" :> <<"T">> @@
    "u" :> <<"U">> @@ "v" :> <<"V">> @@ "w" :> <<"W">> @@ "x" :> <<"X">> @@
    "y" :> <<"Y">> @@ "z" :> <<"Z">> @@ "µ" :> <<"Μ">> @@ "ß" :> <<"S", "s">> @@
    "à" :> <<"À">> @@ "á" :> <<"Á">> @@ "â" :> <<"Â">> @@ "ã" :> <<"Ã">> @@
    "ä" :> <<"Ä">> @@ "å" :> <<"Å">> @@ "æ" :> <<"Æ">> @@ "ç" :> <<"Ç">> @@
    "è" :> <<"È">> @@ "é" :> <<"É">> @@ "ê" :> <<"Ê">> @@ "ë" :> <<"Ë">> @@
    "ì" :> <<"Ì">> @@ "í" :> <<"Í">> @@ "î" :> <<"Î">> @@ "ï" :> <<"Ï">> @@
    "ð" :> <<"Ð">> @@ "ñ" :> <<"Ñ">> @@ "ò" :> <<"Ò">> @@ "ó" :> <<"Ó">> @@
    "ô" :> <<"Ô">> @@ "õ" :> <<"Õ">> @@ "ö" :> <<"Ö">> @@ "ø" :> <<"Ø">> @@
    "ù" :> <<"Ù">> @@ "ú" :> <<"Ú">> @@ "û" :> <<"Û">> @@ "ü" :> <<"Ü">> @@
    "ý" :> <<"Ý">> @@ "þ" :> <<"Þ">>

TitleChar(c) == IF c \in DOMAIN LowerToTitle THEN LowerToTitle[c] ELSE <<c>>

\* the cased characters: the letters that have, or are, a lower or upper case
Cased ==
    {"A", "B", "C", "D", "E", "F", "G", "H", "I", "J", "K", "L", "M", "N", "O", "P", "Q",
     "R", "S", "T", "U", "V", "W", "X", "Y", "Z", "a", "b", "c", "d", "e", "f", "g", "h",
     "i", "j", "k", "l", "m", "n", "o", "p", "q", "r", "s", "t", "u", "v", "w", "x", "y",
     "z", "ª", "µ", "º", "À", "Á", "Â", "Ã", "Ä", "Å", "Æ", "Ç", "È", "É", "Ê", "Ë", "Ì",
     "Í", "Î", "Ï", "Ð", "Ñ", "Ò", "Ó", "Ô", "Õ", "Ö", "Ø", "Ù", "Ú", "Û", "Ü", "Ý", "Þ",
     "ß", "à", "á", "â", "ã", "ä", "å", "æ", "ç", "è", "é", "ê", "ë", "ì", "í", "î", "ï",
     "ð", "ñ", "ò", "ó", "ô", "õ", "ö", "ø", "ù", "ú", "û", "ü", "ý", "þ"}

RECURSIVE TitleFrom(_, _)
\* str.title() of chars from position i on: a character that follows a cased one is
\* lower-cased, any other is title-cased
TitleFrom(chars, i) ==
    IF i > Len(chars) THEN <<>>
    ELSE (IF i > 1 /\ chars[i - 1] \in Cased THEN <<LowerChar(chars[i])>>
          ELSE TitleChar(chars[i]))
         \o TitleFrom(chars, i + 1)

\* str.title()
Title(chars) == TitleFrom(chars, 1)

\* str.replace(old, "") for a one-character old
Remove(chars, old) == SelectSeq(chars, LAMBDA c : c # old)

DigitValue ==
    "0" :> 0 @@ "1" :> 1 @@ "2" :> 2 @@ "3" :> 3 @@ "4" :> 4 @@ "5" :> 5 @@ "6" :> 6
    @@ "7" :> 7 @@ "8" :> 8 @@ "9" :> 9

RECURSIVE DigitsValue(_)
DigitsValue(chars) ==
    IF chars = <<>> THEN 0
    ELSE 10 * DigitsValue(SubSeq(chars, 1, Len(chars) - 1)) + DigitValue[chars[Len(chars)]]

\* float(chars) in whole cents, for digits with at most two decimals (what the
\* estimated_damage pattern can capture); [ok, cents], ok FALSE for a ValueError
ParseFloat(chars) ==
    LET dots == {i \in 1..Len(chars) : chars[i] = "."}
        whole == IF dots = {} THEN chars
                 ELSE SubSeq(chars, 1, (CHOOSE i \in dots : TRUE) - 1)
        frac == IF dots = {} THEN <<>>
                ELSE SubSeq(chars, (CHOOSE i \in dots : TRUE) + 1, Len(chars))
        wellformed ==
            /\ Cardinality(dots) <= 1
            /\ Len(whole) + Len(frac) > 0
            /\ \A i \in 1..Len(chars) : chars[i] \in Digits \cup {"."}
            /\ Len(frac) <= 2
    IN  IF ~wellformed THEN [ok |-> FALSE, cents |-> 0]
        ELSE [ok |-> TRUE,
              cents |-> 100 * DigitsValue(whole)
                        + (IF Len(frac) = 1 THEN 10 ELSE 1) * DigitsValue(frac)]

\* match.group(1).strip() if match else None
stripped_group(match) == IF match.found THEN PyStr(Strip(match.group)) ELSE PyNone

\* the loop over FIELD_PATTERNS: the stripped first group, or None
matched_fields(text) ==
    [f \in {FieldNames[i] : i \in 1..Len(FieldNames)} |->
        stripped_group(Search(FIELD_PATTERNS[f], text))]

\* match.group(1).title() when the pattern matched
titled_group(match) == IF match.found THEN PyStr(Title(match.group)) ELSE PyNone

\* Mutant of location_from_description: "parking" is tested before "street"
location_from_description_parking_first(desc) ==
    IF Contains(desc, Lit["driveway"])
    THEN PyStr(<<"D", "r", "i", "v", "e", "w", "a", "y">>)
    ELSE IF Contains(desc, Lit["parking"])
    THEN PyStr(<<"P", "a", "r", "k", "i", "n", "g", " ", "l", "o", "t", "/",
                 "g", "a", "r", "a", "g", "e">>)
    ELSE IF Contains(desc, Lit["street"])
    THEN titled_group(Search(StreetPattern, desc))
    ELSE IF Contains(desc, Lit["intersection"])
    THEN titled_group(Search(IntersectionPattern, desc))
    ELSE PyNone

\* the fallback: the location the description gives, None when it gives none
location_from_description(desc) ==
    IF Contains(desc, Lit["driveway"])
    THEN PyStr(<<"D", "r", "i", "v", "e", "w", "a", "y">>)
    ELSE IF Contains(desc, Lit["street"])
    THEN titled_group(Search(StreetPattern, desc))
    ELSE IF Contains(desc, Lit["parking"])
    THEN PyStr(<<"P", "a", "r", "k", "i", "n", "g", " ", "l", "o", "t", "/",
                 "g", "a", "r", "a", "g", "e">>)
    ELSE IF Contains(desc, Lit["intersection"])
    THEN titled_group(Search(IntersectionPattern, desc))
    ELSE PyNone

\* extracted["incident_location"] = found, when the description gave a location
with_location(extracted, found) ==
    IF found.t = "str" THEN [extracted EXCEPT !["incident_location"] = found]
    ELSE extracted

\* extracted after the fallback block
with_location_fallback(extracted) ==
    IF ~Truthy(extracted["incident_location"]) /\ Truthy(extracted["accident_description"])
    THEN with_location(extracted,
            location_from_description(Lower(extracted["accident_description"].s)))
    ELSE extracted

\* the value stored under estimated_damage_value
damage_value_of(estimated_damage) ==
    IF Truthy(estimated_damage)
    THEN LET parsed == ParseFloat(Remove(Remove(estimated_damage.s, ","), "$"))
         IN  IF parsed.ok THEN PyNum(parsed.cents) ELSE PyNum(0)
    ELSE PyNum(0)

\* extracted after the damage clean-up block
with_damage_value(extracted) ==
    [k \in DOMAIN extracted \cup {"estimated_damage_value"} |->
        IF k = "estimated_damage_value"
        THEN damage_value_of(extracted["estimated_damage"])
        ELSE extracted[k]]

extract_fields(text) == with_damage_value(with_location_fallback(matched_fields(text)))

(***************************************************************************)
(* FieldExtractor.validate_fields and check_for_fraud_indicators           *)
(***************************************************************************)
\* Mutant of MANDATORY_FIELDS: estimated_damage is not mandatory
MANDATORY_FIELDS_without_damage ==
    <<"policy_number", "policyholder_name", "incident_date", "incident_location",
      "claim_type">>

MANDATORY_FIELDS ==
    <<"policy_number", "policyholder_name", "incident_date", "incident_location",
      "claim_type", "estimated_damage">>

placeholder_values ==
    <<"not", "not provided", "n/a", "na", "unknown", "incomplete", "insufficient",
      "missing">>

\* Mutant of is_placeholder: the .strip() is forgotten
is_placeholder_unstripped(chars) ==
    \E i \in 1..Len(placeholder_values) : Lower(chars) = Lit[placeholder_values[i]]

\* value.lower().strip() in placeholder_values
is_placeholder(chars) ==
    \E i \in 1..Len(placeholder_values) :
        Strip(Lower(chars)) = Lit[placeholder_values[i]]

\* the two tests of the loop body on extracted_fields.get(field)
is_missing(value) ==
    \/ ~Truthy(value)
    \/ value.t = "str" /\ is_placeholder(value.s)

\* the for loop appends, in the order of MANDATORY_FIELDS, each field that tests missing
validate_fields(extracted_fields) ==
    SelectSeq(MANDATORY_FIELDS,
              LAMBDA field : is_missing(Get(extracted_fields, field, PyNone)))

fraud_keywords == <<"fraud", "inconsistent", "staged", "suspicious", "falsified">>

\* Mutant of check_for_fraud_indicators: the text is searched as it is, not lower-cased
check_for_fraud_indicators_cased(text) ==
    SelectSeq(fraud_keywords, LAMBDA keyword : Contains(text, Lit[keyword]))

\* the for loop appends, in the order of fraud_keywords, each keyword found in text_lower
check_for_fraud_indicators(text) ==
    LET text_lower == Lower(text)
    IN  SelectSeq(fraud_keywords, LAMBDA keyword : Contains(text_lower, Lit[keyword]))

(***************************************************************************)
(* Direct calls of validate_fields: the inputs                             *)
(***************************************************************************)
PresentValue == PyStr(<<"A", "B", "C", "1", "2", "3">>)

\* values whose handling the validator decides by their text
TextSamples ==
    { PyStr(<<" ", "N", "A", " ">>),
      PyStr(<<"N", "/", "A">>),
      PyStr(<<"U", "n", "k", "n", "o", "w", "n">>),
      PyStr(<<"n", "o", "t">>),
      PyStr(<<"n", "o", "t", "a">>),
      PyStr(<<" ", " ">>),
      PyStr(<<"N", "o", "t", " ", "P", "r", "o", "v", "i", "d", "e", "d">>),
      PyStr(<<"M", "I", "S", "S", "I", "N", "G">>),
      PyStr(<<"i", "n", "c", "o", "m", "p", "l", "e", "t", "e">>),
      PyStr(<<"I", "n", "s", "u", "f", "f", "i", "c", "i", "e", "n", "t", "\n">>),
      PyStr(<<"n", " ", "a">>),
      PyStr(<<"N", "/", "A", " ">>),
      PyStr(<<"", "n", "a", "\f">>),
      PyStr(<<"Ü", "n", "k", "n", "o", "w", "n">>) }

MandatorySet == {MANDATORY_FIELDS[i] : i \in 1..Len(MANDATORY_FIELDS)}

\* dicts holding any subset of the mandatory keys, each with a present value, None or ''
PlainDicts ==
    UNION { [keys -> {PresentValue, PyNone, PyStr(<<>>)}] : keys \in SUBSET MandatorySet }

\* dicts in which one field holds a text sample and the others a present value or None
TextDicts ==
    { [k \in MandatorySet |-> IF k = f THEN v ELSE IF k \in nones THEN PyNone ELSE PresentValue] :
        f \in MandatorySet, v \in TextSamples, nones \in SUBSET MandatorySet }

InitValidate ==
    /\ op = "validate_fields"
    /\ \E d \in PlainDicts \cup TextDicts : args = [extracted_fields |-> d]
    /\ ret = Pending
    /\ AgentIdle

CallValidateFields ==
    /\ op = "validate_fields"
    /\ ~ret.done
    /\ ret' = [done |-> TRUE, raised |-> "", value |-> validate_fields(args.extracted_fields)]
    /\ UNCHANGED <<op, args>>
    /\ UNCHANGED agent_vars

NextValidate == CallValidateFields

SpecValidate == InitValidate /\ [][NextValidate]_vars

(***************************************************************************)
(* Direct calls of check_for_fraud_indicators: the inputs                  *)
(***************************************************************************)
\* the longest text, in words of TextWords
MaxWords == 3

TextWords ==
    { <<"F", "r", "a", "u", "d">>,
      <<"S", "T", "A", "G", "E", "D">>,
      <<"s", "t", "a">>,
      <<"g", "e", "d">>,
      <<"f", "a", "l", "s", "i", "f", "i", "e", "d", ",", " ", "S", "u", "s", "p", "i", "c", "i", "o", "u", "s">>,
      <<"i", "n", "c", "o", "n", "s", "i", "s", "t", "e", "n", "t">>,
      <<" ">>,
      <<"x">> }

RECURSIVE Concat(_)
\* the words of a sequence of words, run together
Concat(words) == IF words = <<>> THEN <<>> ELSE Head(words) \o Concat(Tail(words))

TextSamplesOfWords == { Concat(ws) : ws \in UNION { [1..n -> TextWords] : n \in 0..MaxWords } }

InitFraud ==
    /\ op = "check_for_fraud_indicators"
    /\ \E t \in TextSamplesOfWords : args = [text |-> t]
    /\ ret = Pending
    /\ AgentIdle

CallCheckForFraudIndicators ==
    /\ op = "check_for_fraud_indicators"
    /\ ~ret.done
    /\ ret' = [done |-> TRUE, raised |-> "", value |-> check_for_fraud_indicators(args.text)]
    /\ UNCHANGED <<op, args>>
    /\ UNCHANGED agent_vars

NextFraud == CallCheckForFraudIndicators

SpecFraud == InitFraud /\ [][NextFraud]_vars

(***************************************************************************)
(* Direct calls of extract_fields: the inputs                              *)
(***************************************************************************)
\* what precedes the location and the description in a text
LeadingLines ==
    { <<>>,
      <<"C", "L", "A", "I", "M", " ", "T", "Y", "P", "E", ":", " ", "A", "u", "t", "o", "\n">> }

\* a location line: none, one with a location, one whose location is blank
ExplicitLocationLines ==
    { <<>>,
      <<"L", "O", "C", "A", "T", "I", "O", "N", " ", "O", "F", " ", "L", "O", "S", "S", ":", " ", "1", "2", "3", " ", "M", "a", "i", "n", " ", "S", "t", "\n">>,
      <<"L", "O", "C", ":", " ", ";", "\n">> }

\* a description line: none, or one with none, one or several of the keywords
FallbackDescriptionLines ==
    { <<>>,
      <<"D", "E", "S", "C", "R", "I", "P", "T", "I", "O", "N", ":", " ", "c", "o", "l", "l", "i", "s", "i", "o", "n", " ", "o", "c", "c", "u", "r", "r", "e", "d", " ", "i", "n", " ", "t", "h", "e", " ", "d", "r", "i", "v", "e", "w", "a", "y", "\n">>,
      <<"D", "E", "S", "C", "R", "I", "P", "T", "I", "O", "N", ":", " ", "s", "t", "a", "g", "e", "d", " ", "o", "n", " ", "E", "l", "m", " ", "S", "t", "r", "e", "e", "t", "\n">>,
      <<"D", "E", "S", "C", "R", "I", "P", "T", "I", "O", "N", ":", " ", "s", "t", "r", "e", "e", "t", " ", "r", "a", "c", "i", "n", "g", "\n">>,
      <<"D", "E", "S", "C", "R", "I", "P", "T", "I", "O", "N", ":", " ", "h", "i", "t", " ", "i", "n", " ", "a", " ", "P", "A", "R", "K", "I", "N", "G", " ", "g", "a", "r", "a", "g", "e", "\n">>,
      <<"D", "E", "S", "C", "R", "I", "P", "T", "I", "O", "N", ":", " ", "a", "t", " ", "t", "h", "e", " ", "i", "n", "t", "e", "r", "s", "e", "c", "t", "i", "o", "n", " ", "o", "f", " ", "5", "t", "h", " ", "a", "n", "d", " ", "e", "l", "m", ".", " ", "t", "h", "e", "n", " ", "f", "l", "e", "d", "\n">>,
      <<"D", "E", "S", "C", "R", "I", "P", "T", "I", "O", "N", ":", " ", "a", "t", " ", "a", "n", " ", "i", "n", "t", "e", "r", "s", "e", "c", "t", "i", "o", "n", "\n">>,
      <<"D", "E", "S", "C", "R", "I", "P", "T", "I", "O", "N", ":", " ", "d", "r", "i", "v", "e", "w", "a", "y", " ", "o", "f", "f", " ", "e", "l", "m", " ", "s", "t", "r", "e", "e", "t", "\n">>,
      <<"D", "E", "S", "C", "R", "I", "P", "T", "I", "O", "N", ":", " ", "p", "a", "r", "k", "i", "n", "g", " ", "n", "e", "a", "r", " ", "e", "l", "m", " ", "s", "t", "r", "e", "e", "t", "\n">>,
      <<"D", "E", "S", "C", "R", "I", "P", "T", "I", "O", "N", ":", " ", "p", "a", "r", "k", "i", "n", "g", " ", "a", "t", " ", "i", "n", "t", "e", "r", "s", "e", "c", "t", "i", "o", "n", " ", "o", "f", " ", "a", " ", "a", "n", "d", " ", "b", "\n">>,
      <<"D", "E", "S", "C", "R", "I", "P", "T", "I", "O", "N", ":", " ", "r", "e", "a", "r", "-", "e", "n", "d", "e", "d", " ", "a", "t", " ", "a", " ", "l", "i", "g", "h", "t", "\n">>,
      <<"D", "E", "S", "C", "R", "I", "P", "T", "I", "O", "N", ":", " ", "\n">>,
      <<"D", "E", "S", "C", "R", "I", "P", "T", "I", "O", "N", ":", " ", "D", "r", "i", "v", "e", "w", "a", "y", " ", "p", "a", "r", "k", "i", "n", "g", "\n">>,
      <<"D", "E", "S", "C", "R", "I", "P", "T", "I", "O", "N", ":", " ", "i", "n", "t", "e", "r", "s", "e", "c", "t", "i", "o", "n", " ", "o", "f", " ", "x", " ", "n", "e", "a", "r", " ", "t", "h", "e", " ", "d", "r", "i", "v", "e", "w", "a", "y", "\n">>,
      <<"D", "E", "S", "C", "R", "I", "P", "T", "I", "O", "N", ":", " ", "p", "r", "è", "s", " ", "d", "e", " ", "l", "'", "é", "g", "l", "i", "s", "e", "", "s", "t", "r", "e", "e", "t", "\n">> }

\* the texts: a leading line, a location line, a description line, in this order
ExtractTexts ==
    { Concat(<<p, l, d>>) :
        p \in LeadingLines, l \in ExplicitLocationLines, d \in FallbackDescriptionLines }

InitExtract ==
    /\ op = "extract_fields"
    /\ \E t \in ExtractTexts : args = [text |-> t]
    /\ ret = Pending
    /\ AgentIdle

CallExtractFields ==
    /\ op = "extract_fields"
    /\ ~ret.done
    /\ ret' = [done |-> TRUE, raised |-> "", value |-> extract_fields(args.text)]
    /\ UNCHANGED <<op, args>>
    /\ UNCHANGED agent_vars

NextExtract == CallExtractFields

SpecExtract == InitExtract /\ [][NextExtract]_vars

(***************************************************************************)
(* DocumentParser.  A file is [path, exists, name, readable, text]: name is *)
(* Path(path).name, readable says whether reading (or the PDF library's    *)
(* conversion) succeeds, text is what it then yields.                      *)
(***************************************************************************)
SUPPORTED_FORMATS == <<".pdf", ".txt">>

\* Path(path).suffix of a path with this name: the name from its last dot on, when
\* that dot is neither its first nor its last character
suffix(name) ==
    LET dots == {i \in 1..Len(name) : name[i] = "."}
    IN  IF \E i \in dots : i > 1 /\ i < Len(name) /\ \A j \in dots : j <= i
        THEN SubSeq(name, CHOOSE i \in dots : \A j \in dots : j <= i, Len(name))
        ELSE <<>>

ParseOk(text) == [raised |-> "", text |-> text, message |-> <<>>]
ParseRaised(exception, message) == [raised |-> exception, text |-> <<>>, message |-> message]

_parse_txt(file) ==
    IF file.readable THEN ParseOk(file.text)
    ELSE ParseRaised("Exception", <<"Error reading TXT file: ", "cause">>)

_parse_pdf(file, has_pdfplumber) ==
    IF ~has_pdfplumber
    THEN ParseRaised("ImportError",
            <<"pdfplumber is required for PDF parsing. Install with: pip install pdfplumber">>)
    ELSE IF file.readable THEN ParseOk(file.text)
    ELSE ParseRaised("Exception", <<"Error reading PDF file: ", "cause">>)

parse_document(file, has_pdfplumber) ==
    LET file_ext == Lower(suffix(file.name))
    IN  IF ~file.exists
        THEN ParseRaised("FileNotFoundError", <<"Document not found: ", file.path>>)
        ELSE IF file_ext = Lit[".txt"] THEN _parse_txt(file)
        ELSE IF file_ext = Lit[".pdf"] THEN _parse_pdf(file, has_pdfplumber)
        ELSE ParseRaised("ValueError", <<"Unsupported file format: ", file_ext>>)

is_supported_format(file) ==
    \E i \in 1..Len(SUPPORTED_FORMATS) :
        Lower(suffix(file.name)) = Lit[SUPPORTED_FORMATS[i]]

(***************************************************************************)
(* ClaimsProcessingAgent                                                   *)
(***************************************************************************)
\* {k: v for k, v in extracted_fields.items() if v is not None and not k.endswith("_value")}
_clean_extracted_fields(extracted_fields) ==
    [k \in {f \in DOMAIN extracted_fields :
               extracted_fields[f].t # "none" /\ ~EndsWith(f, "_value")} |->
        extracted_fields[k]]

EmptyDict == [k \in {} |-> PyNone]

\* Mutant of failed_record: a failure is routed like a document without missing fields
failed_record_fast_track(message) ==
    [error |-> message,
     status |-> "FAILED",
     extractedFields |-> EmptyDict,
     missingFields |-> <<>>,
     recommendedRoute |-> "FAST_TRACK",
     reasoning |-> <<"Document parsing failed: ">> \o message]

\* the record of the except branch
failed_record(message) ==
    [error |-> message,
     status |-> "FAILED",
     extractedFields |-> EmptyDict,
     missingFields |-> MANDATORY_FIELDS,
     recommendedRoute |-> "MANUAL_REVIEW",
     reasoning |-> <<"Document parsing failed: ">> \o message]

\* steps 3 to 6 on the fields and fraud indicators of a parsed document
routed_record(document_path, extracted_fields, fraud_indicators) ==
    LET missing_fields == validate_fields(extracted_fields)
        routing_decision == determine_route(extracted_fields, missing_fields,
                                            fraud_indicators)
    IN  [raised |-> routing_decision.raised,
         value |->
            [status |-> "SUCCESS",
             document_path |-> document_path,
             extractedFields |-> _clean_extracted_fields(extracted_fields),
             missingFields |-> missing_fields,
             fraudIndicators |-> fraud_indicators,
             recommendedRoute |-> routing_decision.recommendedRoute,
             reasoning |-> routing_decision.reasoning]]

\* steps 2 to 6 on the text of a parsed document
success_record(document_path, document_text) ==
    routed_record(document_path, extract_fields(document_text),
                  check_for_fraud_indicators(document_text))

\* Mutant of process_claim: the try/except around parse_document is missing
process_claim_uncaught(file, has_pdfplumber) ==
    LET parsed == parse_document(file, has_pdfplumber)
    IN  IF parsed.raised # ""
        THEN [raised |-> parsed.raised, value |-> failed_record(parsed.message)]
        ELSE success_record(file.path, parsed.text)

\* [raised, value]: the record returned, or the exception that escapes
process_claim(file, has_pdfplumber) ==
    LET parsed == parse_document(file, has_pdfplumber)
    IN  IF parsed.raised # ""
        THEN [raised |-> "", value |-> failed_record(parsed.message)]
        ELSE success_record(file.path, parsed.text)

\* whether the call reaches `self.processed_count += 1`
counts_as_processed(outcome) == outcome.raised = "" /\ outcome.value.status = "SUCCESS"

(***************************************************************************)
(* Documents                                                               *)
(***************************************************************************)
PolicyLines ==
    { <<>>,
      <<"P", "O", "L", "I", "C", "Y", " ", "N", "U", "M", "B", "E", "R", ":", " ", "A", "B", "C", "1", "2", "3", "\n">> }

NameLines ==
    { <<"N", "A", "M", "E", " ", "O", "F", " ", "I", "N", "S", "U", "R", "E", "D", ":", " ", "J", "a", "n", "e", " ", "D", "o", "e", "\n">> }

DateLines ==
    { <<"D", "A", "T", "E", " ", "O", "F", " ", "L", "O", "S", "S", ":", " ", "0", "1", "/", "0", "2", "/", "2", "0", "2", "4", "\n">> }

LocationLines ==
    { <<>>,
      <<"L", "O", "C", "A", "T", "I", "O", "N", " ", "O", "F", " ", "L", "O", "S", "S", ":", " ", "1", "2", "3", " ", "M", "a", "i", "n", " ", "S", "t", "\n">> }

TypeLines ==
    { <<"C", "L", "A", "I", "M", " ", "T", "Y", "P", "E", ":", " ", "A", "u", "t", "o", "\n">>,
      <<"C", "L", "A", "I", "M", " ", "T", "Y", "P", "E", ":", " ", "B", "o", "d", "i", "l", "y", " ", "I", "n", "j", "u", "r", "y", "\n">>,
      <<"C", "L", "A", "I", "M", " ", "T", "Y", "P", "E", ":", " ", "U", "n", "k", "n", "o", "w", "n", "\n">> }

DamageLines ==
    { <<>>,
      <<"E", "S", "T", "I", "M", "A", "T", "E", "D", " ", "D", "A", "M", "A", "G", "E", ":", " ", "$", "5", ",", "0", "0", "0", "\n">>,
      <<"E", "S", "T", "I", "M", "A", "T", "E", "D", " ", "D", "A", "M", "A", "G", "E", ":", " ", "$", "2", "5", ",", "0", "0", "0", "\n">>,
      <<"E", "S", "T", "I", "M", "A", "T", "E", "D", " ", "D", "A", "M", "A", "G", "E", ":", " ", "$", "2", "4", ",", "9", "9", "9", ".", "9", "9", "\n">>,
      <<"E", "S", "T", "I", "M", "A", "T", "E", "D", " ", "D", "A", "M", "A", "G", "E", ":", " ", "T", "B", "D", "\n">> }

DescriptionLines ==
    { <<>>,
      <<"D", "E", "S", "C", "R", "I", "P", "T", "I", "O", "N", ":", " ", "c", "o", "l", "l", "i", "s", "i", "o", "n", " ", "o", "c", "c", "u", "r", "r", "e", "d", " ", "i", "n", " ", "t", "h", "e", " ", "d", "r", "i", "v", "e", "w", "a", "y", "\n">>,
      <<"D", "E", "S", "C", "R", "I", "P", "T", "I", "O", "N", ":", " ", "s", "t", "a", "g", "e", "d", " ", "o", "n", " ", "E", "l", "m", " ", "S", "t", "r", "e", "e", "t", "\n">> }

\* the texts of the documents: one line, or none, of each kind, in this order
TextsWith(descriptions) ==
    { Concat(<<p, n, d, l, t, a, x>>) :
        p \in PolicyLines, n \in NameLines, d \in DateLines, l \in LocationLines,
        t \in TypeLines, a \in DamageLines, x \in descriptions }

DocumentTexts == TextsWith(DescriptionLines) \cup {<<>>}

\* file names: with a supported suffix, with one in capitals, with another, with
\* none, and two that are nothing but a supported suffix
Names ==
    { <<"c", "l", "a", "i", "m", ".", "t", "x", "t">>,
      <<"c", "l", "a", "i", "m", ".", "p", "d", "f">>,
      <<"c", "l", "a", "i", "m", ".", "T", "X", "T">>,
      <<"c", "l", "a", "i", "m", ".", "d", "o", "c">>,
      <<"c", "l", "a", "i", "m">>,
      <<".", "t", "x", "t">>,
      <<".", "p", "d", "f">> }

File(path, exists, name, readable, text) ==
    [path |-> path, exists |-> exists, name |-> name, readable |-> readable,
     text |-> text]

\* the documents a single call is given: readable ones (.txt of every text, .pdf of
\* those without a description), and one of every way of not being readable
ReadableDocuments ==
    { File("claim", TRUE, <<"c", "l", "a", "i", "m", ".", "t", "x", "t">>, TRUE, t) :
        t \in DocumentTexts }
    \cup { File("claim", TRUE, <<"c", "l", "a", "i", "m", ".", "p", "d", "f">>, TRUE, t) :
             t \in TextsWith({<<>>}) }

\* files without text, in every combination of existing, name and readability
BareDocuments ==
    { File("claim", e, n, r, <<>>) : e \in BOOLEAN, n \in Names, r \in BOOLEAN }

(***************************************************************************)
(* Single calls of process_claim                                           *)
(***************************************************************************)
InitClaim ==
    /\ op = "process_claim"
    /\ \/ /\ HAS_PDFPLUMBER = TRUE
          /\ \E f \in ReadableDocuments \cup BareDocuments : args = [document |-> f]
       \/ /\ HAS_PDFPLUMBER = FALSE
          /\ \E f \in ReadableDocuments \cup BareDocuments :
                /\ Lower(suffix(f.name)) = Lit[".pdf"]
                /\ args = [document |-> f]
    /\ ret = Pending
    /\ processed_count = 0
    /\ directory = [isdir |-> FALSE, listing |-> <<>>]
    /\ supported_files = <<>>
    /\ results = <<>>
    /\ pc = "idle"

CallProcessClaim ==
    /\ op = "process_claim"
    /\ ~ret.done
    /\ \E outcome \in {process_claim(args.document, HAS_PDFPLUMBER)} :
           /\ ret' = [done |-> TRUE, raised |-> outcome.raised, value |-> outcome.value]
           /\ processed_count' = IF counts_as_processed(outcome)
                                 THEN processed_count + 1 ELSE processed_count
    /\ UNCHANGED <<op, args, HAS_PDFPLUMBER, directory, supported_files, results, pc>>

NextClaim == CallProcessClaim

SpecClaim == InitClaim /\ [][NextClaim]_vars

(***************************************************************************)
(* process_multiple_claims.  directory.listing is the directory's entries  *)
(* in the order the file system lists them; an entry's path is its         *)
(* position.  An entry with exists = FALSE is a dangling link, or a file   *)
(* removed after the glob.                                                 *)
(***************************************************************************)
\* the most entries a directory has
MaxFiles == 3

\* Path(directory_path).glob(f"*{ext}"): the entries whose name ends in ext
glob(listing, ext) == SelectSeq(listing, LAMBDA f : EndsWith(f.name, Lit[ext]))

RECURSIVE globbed(_, _)
\* supported_files after the loop over the first n entries of SUPPORTED_FORMATS
globbed(listing, n) ==
    IF n = 0 THEN <<>>
    ELSE globbed(listing, n - 1) \o glob(listing, SUPPORTED_FORMATS[n])

BatchTexts ==
    { <<>>,
      <<"C", "L", "A", "I", "M", " ", "T", "Y", "P", "E", ":", " ", "A", "u", "t", "o", "\n", "s", "t", "a", "g", "e", "d">> }

\* what a directory entry can be, but for its path
EntryKinds ==
    { File(0, TRUE, <<"a", ".", "t", "x", "t">>, TRUE, t) : t \in BatchTexts }
    \cup { File(0, TRUE, <<"a", ".", "p", "d", "f">>, TRUE, <<>>),
           File(0, TRUE, <<"a", ".", "t", "x", "t">>, FALSE, <<>>),
           File(0, FALSE, <<"a", ".", "p", "d", "f">>, TRUE, <<>>),
           File(0, TRUE, <<"a", ".", "d", "o", "c">>, TRUE, <<>>),
           File(0, TRUE, <<"a", ".", "T", "X", "T">>, TRUE, <<>>),
           File(0, TRUE, <<".", "t", "x", "t">>, TRUE, <<>>),
           File(0, TRUE, <<".", "p", "d", "f">>, TRUE, <<>>) }

\* the name of the entry at position i: names that have a stem get one of their
\* own, since a directory holds no two entries of one name
Stems == <<"a", "b", "c", "d", "e", "f", "g", "h">>
NameAt(name, i) == IF Head(name) = "a" THEN <<Stems[i]>> \o Tail(name) ELSE name

Listings ==
    UNION { { [i \in 1..n |-> [kinds[i] EXCEPT !.path = i, !.name = NameAt(@, i)]] :
                kinds \in {ks \in [1..n -> EntryKinds] :
                              \A i, j \in 1..n :
                                  i # j => NameAt(ks[i].name, i) # NameAt(ks[j].name, j)} } :
            n \in 0..MaxFiles }

InitBatch ==
    /\ op = "process_multiple_claims"
    /\ args = [directory_path |-> "claims"]
    /\ ret = Pending
    /\ HAS_PDFPLUMBER \in BOOLEAN
    /\ processed_count = 0
    /\ \/ directory = [isdir |-> FALSE, listing |-> <<>>]
       \/ \E l \in Listings : directory = [isdir |-> TRUE, listing |-> l]
    /\ supported_files = <<>>
    /\ results = <<>>
    /\ pc = "idle"

\* lines 92 to 104: the directory test, the globs, the early return
BatchStart ==
    /\ op = "process_multiple_claims"
    /\ pc = "idle"
    /\ IF ~directory.isdir
       THEN /\ pc' = "raised"
            /\ ret' = [done |-> TRUE, raised |-> "ValueError", value |-> <<>>]
            /\ UNCHANGED supported_files
       ELSE LET found == globbed(directory.listing, Len(SUPPORTED_FORMATS))
            IN  /\ supported_files' = found
                /\ IF found = <<>>
                   THEN /\ pc' = "returned"
                        /\ ret' = [done |-> TRUE, raised |-> "", value |-> results]
                   ELSE /\ pc' = "loop"
                        /\ UNCHANGED ret
    /\ UNCHANGED <<op, args, HAS_PDFPLUMBER, processed_count, directory, results>>

\* one turn of the for loop: process_claim on the next file, its record appended
BatchStep ==
    /\ pc = "loop"
    /\ Len(results) < Len(supported_files)
    /\ \E outcome \in {process_claim(supported_files[Len(results) + 1], HAS_PDFPLUMBER)} :
           IF outcome.raised # ""
           THEN /\ pc' = "raised"
                /\ ret' = [done |-> TRUE, raised |-> outcome.raised, value |-> <<>>]
                /\ UNCHANGED <<results, processed_count>>
           ELSE /\ results' = Append(results, outcome.value)
                /\ processed_count' = IF counts_as_processed(outcome)
                                      THEN processed_count + 1 ELSE processed_count
                /\ UNCHANGED <<pc, ret>>
    /\ UNCHANGED <<op, args, HAS_PDFPLUMBER, directory, supported_files>>

\* line 111: the loop is over, the list is returned
BatchReturn ==
    /\ pc = "loop"
    /\ Len(results) = Len(supported_files)
    /\ pc' = "returned"
    /\ ret' = [done |-> TRUE, raised |-> "", value |-> results]
    /\ UNCHANGED <<op, args, HAS_PDFPLUMBER, processed_count, directory, supported_files,
                   results>>

NextBatch == BatchStart \/ BatchStep \/ BatchReturn

SpecBatch == InitBatch /\ [][NextBatch]_vars

(***************************************************************************)
(* Claims about validate_fields (checked under SpecValidate)               *)
(***************************************************************************)
ValidateDone == op = "validate_fields" /\ ret.done

\* position of a name in a list of names, 0 when it is not in the list
IndexIn(list, name) ==
    IF \E i \in 1..Len(list) : list[i] = name
    THEN CHOOSE i \in 1..Len(list) : list[i] = name
    ELSE 0

\* `sub` lists names of `list`, in the order of `list`, none twice
OrderedSubList(sub, list) ==
    /\ \A i \in 1..Len(sub) : IndexIn(list, sub[i]) > 0
    /\ \A i, j \in 1..Len(sub) : i < j => IndexIn(list, sub[i]) < IndexIn(list, sub[j])

\* the field holds no value: its key is not held, or it holds None
FieldAbsent(f) ==
    f \notin DOMAIN args.extracted_fields \/ args.extracted_fields[f].t = "none"

\* the field holds the empty string
FieldEmpty(f) ==
    /\ f \in DOMAIN args.extracted_fields
    /\ args.extracted_fields[f].t = "str"
    /\ args.extracted_fields[f].s = <<>>

\* the characters of s without its leading and trailing whitespace, case-folded
TrimmedFolded(s) ==
    LET inner == {i \in 1..Len(s) : s[i] \notin Whitespace}
    IN  [k \in 1..(IF inner = {} THEN 0
                   ELSE 1 + (CHOOSE i \in inner : \A j \in inner : j <= i)
                          - (CHOOSE i \in inner : \A j \in inner : i <= j)) |->
            LowerChar(s[k - 1 + (CHOOSE i \in inner : \A j \in inner : i <= j)])]

\* the field holds a string whose trimmed, case-folded form is a placeholder
FieldPlaceholder(f) ==
    /\ f \in DOMAIN args.extracted_fields
    /\ args.extracted_fields[f].t = "str"
    /\ \E p \in {"not", "not provided", "n/a", "na", "unknown", "incomplete",
                 "insufficient", "missing"} :
          TrimmedFolded(args.extracted_fields[f].s) = Lit[p]

Reported == {ret.value[i] : i \in 1..Len(ret.value)}

\* C8 as stated: the list holds exactly the mandatory fields that are absent or hold
\* a placeholder, in declaration order without duplicates; a field holding any other
\* present value, the empty string included, is not reported.
C8_AbsentOrPlaceholderOnly ==
    ValidateDone =>
        /\ OrderedSubList(ret.value, MANDATORY_FIELDS)
        /\ Reported = {f \in MandatorySet : FieldAbsent(f) \/ FieldPlaceholder(f)}

\* C8 as amended: the list holds exactly the mandatory fields that are absent, hold
\* the empty string or hold a placeholder, in declaration order without duplicates;
\* a field holding any other string is not reported.
C8_AbsentEmptyOrPlaceholder ==
    ValidateDone =>
        /\ OrderedSubList(ret.value, MANDATORY_FIELDS)
        /\ Reported = {f \in MandatorySet :
                          FieldAbsent(f) \/ FieldEmpty(f) \/ FieldPlaceholder(f)}

\* C8 witness: a dict with an absent field, a padded upper-case placeholder and present
\* values has been validated, and the placeholder and the absent field are reported.
C8_Witness ==
    /\ ValidateDone
    /\ FieldAbsent("policy_number")
    /\ "claim_type" \in DOMAIN args.extracted_fields
    /\ args.extracted_fields["claim_type"] = PyStr(<<" ", "N", "A", " ">>)
    /\ ret.value = <<"policy_number", "claim_type">>

(***************************************************************************)
(* Claims about check_for_fraud_indicators (checked under SpecFraud)       *)
(***************************************************************************)
FraudDone == op = "check_for_fraud_indicators" /\ ret.done

\* keyword k occurs in the text at position i, letter case ignored
OccursAt(k, i) ==
    /\ i + Len(Lit[k]) - 1 <= Len(args.text)
    /\ \A j \in 1..Len(Lit[k]) : LowerChar(args.text[i + j - 1]) = Lit[k][j]

Occurrences(k) == {i \in 1..Len(args.text) : OccursAt(k, i)}

\* C10: the result holds exactly the keywords of the fixed list that occur at least
\* once in the text, letter case ignored, each once and in the order of the list.
C10_KeywordsFoundInListOrder ==
    FraudDone =>
        /\ OrderedSubList(ret.value, <<"fraud", "inconsistent", "staged", "suspicious",
                                       "falsified">>)
        /\ {ret.value[i] : i \in 1..Len(ret.value)}
              = {k \in {"fraud", "inconsistent", "staged", "suspicious", "falsified"} :
                    Occurrences(k) # {}}

\* C10 witness: a text in which 'falsified' and 'suspicious' come before a 'fraud' that
\* occurs twice, in mixed case, has been scanned.
C10_Witness ==
    /\ FraudDone
    /\ Cardinality(Occurrences("fraud")) = 2
    /\ \E i \in Occurrences("falsified") : \A j \in Occurrences("fraud") : i < j
    /\ ret.value = <<"fraud", "suspicious", "falsified">>

(***************************************************************************)
(* Claims about process_claim (checked under SpecClaim)                    *)
(***************************************************************************)
ClaimDone == op = "process_claim" /\ ret.done

\* the Text Source fails for the file: it is missing, its extension (case-folded) is
\* neither .txt nor .pdf, reading or converting it fails, or the PDF library is absent
TextSourceFails(file, pdf_library) ==
    LET ext == Lower(suffix(file.name))
    IN  \/ ~file.exists
        \/ ext \notin {<<".", "t", "x", "t">>, <<".", "p", "d", "f">>}
        \/ ~file.readable
        \/ ext = <<".", "p", "d", "f">> /\ ~pdf_library

\* C6: when the Text Source fails, process_claim raises nothing and returns a record
\* with status FAILED, no extracted field, the six mandatory fields as missingFields
\* in declaration order, and route MANUAL_REVIEW.
C6_UnreadableIsFailedManualReview ==
    (ClaimDone /\ TextSourceFails(args.document, HAS_PDFPLUMBER)) =>
        /\ ret.raised = ""
        /\ ret.value.status = "FAILED"
        /\ DOMAIN ret.value.extractedFields = {}
        /\ ret.value.missingFields =
              <<"policy_number", "policyholder_name", "incident_date",
                "incident_location", "claim_type", "estimated_damage">>
        /\ ret.value.recommendedRoute = "MANUAL_REVIEW"

\* C6 witness: an existing PDF was given to an agent without the PDF library, and the
\* call has returned.
C6_Witness ==
    /\ ClaimDone
    /\ args.document.exists /\ args.document.readable
    /\ suffix(args.document.name) = <<".", "p", "d", "f">>
    /\ ~HAS_PDFPLUMBER
    /\ ret.value.status = "FAILED"

\* C7: every record process_claim returns carries the six fields of the result
\* schema, with status SUCCESS or FAILED and one of the five routes.
C7_RecordIsWellFormed ==
    ClaimDone =>
        /\ ret.raised = ""
        /\ {"status", "extractedFields", "missingFields", "fraudIndicators",
            "recommendedRoute", "reasoning"} \subseteq DOMAIN ret.value
        /\ ret.value.status \in {"SUCCESS", "FAILED"}
        /\ ret.value.recommendedRoute \in
              {"MANUAL_REVIEW", "INVESTIGATION_FLAG", "SPECIALIST_QUEUE", "FAST_TRACK",
               "STANDARD_REVIEW"}

(***************************************************************************)
(* Claims about process_multiple_claims (checked under SpecBatch)          *)
(***************************************************************************)
\* the entries of the directory whose name ends in .pdf or .txt
SupportedEntries ==
    {i \in 1..Len(directory.listing) :
        \/ EndsWith(directory.listing[i].name, <<".", "p", "d", "f">>)
        \/ EndsWith(directory.listing[i].name, <<".", "t", "x", "t">>)}

\* the record at position i is that of the document enumerated i-th
RecordOf(record, file) ==
    IF TextSourceFails(file, HAS_PDFPLUMBER)
    THEN record.status = "FAILED"
    ELSE record.status = "SUCCESS" /\ record.document_path = file.path

\* the enumeration holds each supported entry once: the .pdf entries, then the
\* .txt entries, each group in the order of the listing
EnumeratesSupported(files) ==
    /\ {files[i].path : i \in 1..Len(files)} = SupportedEntries
    /\ \A i \in 1..Len(files) : files[i] = directory.listing[files[i].path]
    /\ \A i, j \in 1..Len(files) :
          i < j => \/ EndsWith(files[i].name, <<".", "p", "d", "f">>)
                      /\ EndsWith(files[j].name, <<".", "t", "x", "t">>)
                   \/ /\ EndsWith(files[i].name, <<".", "p", "d", "f">>)
                         <=> EndsWith(files[j].name, <<".", "p", "d", "f">>)
                      /\ files[i].path < files[j].path

\* C9: a batch over a directory never aborts on a document; while it runs the list
\* holds one record per document enumerated so far, in the order of enumeration, a
\* FAILED one for each document that cannot be read; and it returns the list with
\* one record for each supported document.
C9_BatchOneRecordPerDocument ==
    (op = "process_multiple_claims" /\ directory.isdir) =>
        /\ pc # "raised"
        /\ pc # "idle" => EnumeratesSupported(supported_files)
        /\ Len(results) <= Len(supported_files)
        /\ \A i \in 1..Len(results) : RecordOf(results[i], supported_files[i])
        /\ pc = "returned" =>
              /\ ret.done /\ ret.raised = ""
              /\ ret.value = results
              /\ Len(results) = Cardinality(SupportedEntries)

\* C9 witness: a batch has returned three records, the first for a document that
\* could not be read and two later ones for documents that were processed.
C9_Witness ==
    /\ op = "process_multiple_claims"
    /\ pc = "returned"
    /\ Len(ret.value) = 3
    /\ ret.value[1].status = "FAILED"
    /\ ret.value[2].status = "SUCCESS"
    /\ ret.value[3].status = "SUCCESS"

(***************************************************************************)
(* Claims about the location fallback (checked under SpecExtract)          *)
(***************************************************************************)
ExtractDone == op = "extract_fields" /\ ret.done

\* what the explicit patterns found in the text, before the fallback
LocationFound == matched_fields(args.text)["incident_location"]
DescriptionFound == matched_fields(args.text)["accident_description"]

LocationReturned == ret.value["incident_location"]
LoweredDescription == Lower(DescriptionFound.s)

FallbackKeywords == <<"driveway", "street", "parking", "intersection">>

\* position in FallbackKeywords of the first keyword the lower-cased description
\* contains, 0 when it contains none
FirstKeyword ==
    LET held == {i \in 1..Len(FallbackKeywords) :
                    Contains(LoweredDescription, Lit[FallbackKeywords[i]])}
    IN  IF held = {} THEN 0 ELSE CHOOSE i \in held : \A j \in held : i <= j

\* the returned location is a phrase of the description, letter case apart
PhraseOfDescription ==
    /\ LocationReturned.t = "str"
    /\ LocationReturned.s # <<>>
    /\ Contains(LoweredDescription, Lower(LocationReturned.s))

\* the heuristic of keyword k, and no other, decided the returned location
HeuristicDecides(k) ==
    CASE k = 0 -> LocationReturned = LocationFound
      [] k = 1 -> LocationReturned = PyStr(<<"D", "r", "i", "v", "e", "w", "a", "y">>)
      [] k = 2 -> \/ LocationReturned = LocationFound
                  \/ /\ PhraseOfDescription
                     /\ EndsWith(Lower(LocationReturned.s), Lit["street"])
      [] k = 3 -> LocationReturned =
                     PyStr(<<"P", "a", "r", "k", "i", "n", "g", " ", "l", "o", "t", "/",
                             "g", "a", "r", "a", "g", "e">>)
      [] k = 4 -> \/ LocationReturned = LocationFound
                  \/ /\ PhraseOfDescription
                     /\ ~Contains(LocationReturned.s, Lit["."])

\* C11 as stated: the fallback runs only when the explicit pattern found no location
\* (None) and a description was found; then the heuristic of the first keyword, in the
\* order driveway, street, parking, intersection, that the lower-cased description
\* contains decides the location ("Driveway", "Parking lot/garage", a phrase of the
\* description), no keyword leaves it as it was; in every other case the location the
\* explicit pattern found is returned unchanged.
C11_FallbackOnlyWhenLocationAbsent ==
    ExtractDone =>
        IF LocationFound.t = "none" /\ DescriptionFound.t = "str"
        THEN HeuristicDecides(FirstKeyword)
        ELSE LocationReturned = LocationFound

\* C11, amended: the fallback runs when the location the explicit pattern found is
\* None or the empty string and the description found is not empty; then the heuristic
\* of the first keyword the lower-cased description contains decides the location, and
\* a non-empty location found by the explicit pattern is returned unchanged.
C11_FallbackWhenLocationAbsentOrEmpty ==
    ExtractDone =>
        IF ~Truthy(LocationFound) /\ Truthy(DescriptionFound)
        THEN HeuristicDecides(FirstKeyword)
        ELSE LocationReturned = LocationFound

\* C11 witness: no explicit location, a description that names parking before street:
\* the street heuristic, earlier in the order, gave the location.
C11_Witness ==
    /\ ExtractDone
    /\ LocationFound.t = "none"
    /\ FirstKeyword = 2
    /\ Contains(LoweredDescription, Lit["parking"])
    /\ LocationReturned = PyStr(<<"E", "l", "m", " ", "S", "t", "r", "e", "e", "t">>)

(***************************************************************************)
(* Claims about the pipeline of process_claim (checked under SpecClaim)    *)
(***************************************************************************)
RecordReturned == ClaimDone /\ ret.raised = "" /\ ret.value.status = "SUCCESS"

\* the record's route is one of the two that no rule but the threshold rule gives
StraightThrough ==
    RecordReturned /\ ret.value.recommendedRoute \in {"FAST_TRACK", "STANDARD_REVIEW"}

AmountGiven == "estimated_damage" \in DOMAIN ret.value.extractedFields
AmountText == ret.value.extractedFields["estimated_damage"].s

AmountIsPlaceholder ==
    \E p \in {"not", "not provided", "n/a", "na", "unknown", "incomplete",
              "insufficient", "missing"} : TrimmedFolded(AmountText) = Lit[p]

\* the number the amount text stands for, in cents
AmountParsed == ParseFloat(Remove(Remove(AmountText, ","), "$"))

\* C12: a SUCCESS record routed FAST_TRACK or STANDARD_REVIEW has empty missingFields,
\* empty fraudIndicators and a present, non-placeholder estimated_damage that parses
\* to the amount the threshold was applied to; a SUCCESS record of a document without
\* an extracted amount (whose estimated_damage_value is the default 0) is routed
\* MANUAL_REVIEW, never FAST_TRACK.
C12_DefaultAmountNeverFastTracks ==
    /\ StraightThrough =>
          /\ ret.value.missingFields = <<>>
          /\ ret.value.fraudIndicators = <<>>
          /\ AmountGiven
          /\ AmountText # <<>>
          /\ ~AmountIsPlaceholder
          /\ AmountParsed.ok
          /\ ret.value.recommendedRoute = "FAST_TRACK"
                <=> AmountParsed.cents < FAST_TRACK_THRESHOLD * 100
    /\ (RecordReturned /\ ~AmountGiven) => ret.value.recommendedRoute = "MANUAL_REVIEW"

\* C12 witness: a document whose amount of 24,999.99 was extracted has been routed
\* FAST_TRACK.
C12_Witness ==
    /\ StraightThrough
    /\ ret.value.recommendedRoute = "FAST_TRACK"
    /\ AmountGiven
    /\ AmountParsed.cents = 2499999

====
